---- MODULE Spec2Model ----
(***************************************************************************)
(* A model of src/generate_story.py: the story graph built by find_parts,  *)
(* the graph checks (unreachable_nodes, looping_nodes and its escapable /  *)
(* innescapable classification, abnormal_paths and its traverse),          *)
(* the marker checks (command_metadata, excessive_commands) and main.      *)
(***************************************************************************)
EXTENDS Integers, Sequences, FiniteSets, TLC

VARIABLES
    \* find_parts and the graph checks
    stage,          \* "parsing" | "parsed" | "unreachable" | "looping" | "escapable" |
                    \* "innescapable" | "traverse" | "abnormal"
    last,           \* index in Files of the file find_parts parsed last (0: none yet)
    metadata,       \* find_parts' loop variable: the metadata of that file ("none" outside the loop)
    parts,          \* dict[str, StoryParts] in insertion order
    unreachable,    \* result of unreachable_nodes(parts)
    loops,          \* result of looping_nodes(parts)
    escapable,      \* result of escapable_looping_nodes(parts)
    innescapable,   \* result of innescapable_looping_nodes(parts)
    calls,          \* abnormal_paths: the calls of traverse still to run, next first
    visited_paths,  \* abnormal_paths' set of the tuples of group names traverse has seen
    all_paths,      \* abnormal_paths' list of the playthroughs traverse recorded
    abnormal,       \* result of abnormal_paths(parts)
    \* main
    pc,             \* "start" | "checks" | "done"
    corpus,         \* number of groups find_parts returned to main
    values,         \* the checks (by position) whose function returns a non-empty value
    i,              \* number of checks main has run
    failures,
    warnings,
    written,        \* src/story.json has been written
    code,           \* main's return value ("None" | "1"), "running" before it returns
    \* the marker checks
    mstage,         \* "idle" | "ready" | the name of the marker check last run
    node,           \* the StoryPart under the marker checks
    flagged         \* whether the check last run returned the node

graphVars == <<stage, last, metadata, parts, unreachable, loops, escapable, innescapable,
              calls, visited_paths, calls, visited_paths,
                 all_paths, abnormal>>
mainVars == <<pc, corpus, values, i, failures, warnings, written, code>>
markerVars == <<mstage, node, flagged>>
vars == <<graphVars, mainVars, markerVars>>

\* ------------------------------------------------------------------------
\* Bounds of the model
MaxChoices == 2     \* choices per document
MaxDocs == 3        \* documents in the corpus
MaxFindings == 2    \* checks of main's list that find something in one run
MaxLines == 6       \* lines of a node's text

\* ------------------------------------------------------------------------
\* Generic helpers
Range(s) == {s[k] : k \in DOMAIN s}
InSeq(x, s) == \E k \in DOMAIN s : s[k] = x
Last(s) == s[Len(s)]
Front(s) == SubSeq(s, 1, Len(s) - 1)

RECURSIVE Flatten(_)
Flatten(ss) == IF ss = <<>> THEN <<>> ELSE Head(ss) \o Flatten(Tail(ss))

\* ------------------------------------------------------------------------
\* The corpus: the files story/**/*.md that glob may yield, in glob order.
GroupNames == <<"A", "B", "C">>
Files == << <<"story", "A", "1.md">>, <<"story", "A", "2.md">>,
            <<"story", "B", "1.md">>, <<"story", "C.md">> >>

\* Path.stem of the file names of Files
Stem(name) == CASE name = "C.md" -> "C"
                [] name = "1.md" -> "1"
                [] name = "2.md" -> "2"
                [] OTHER -> name

\* f.parts[-2] if len(f.parts) > 2 else f.stem
Pathname(f) == IF Len(f) > 2 THEN f[Len(f) - 1] ELSE Stem(f[Len(f)])

\* node.filepath.name
FileName(n) == n.filepath[Len(n.filepath)]

\* the lists of choice targets (choices.values()) a document may declare:
\* up to n distinct groups, in the order of GroupNames
ChoiceLists(n) ==
    {SelectSeq(GroupNames, LAMBDA g : g \in S) :
        S \in {T \in SUBSET Range(GroupNames) : Cardinality(T) <= n}}

\* safe_load(meta) of a document: start, end, revisit and the values of choices.
\* Metas: any flags, at most one choice, no choices on a document declaring end.
\* GraphMetas: revisitable documents with up to MaxChoices choices.
Metas ==
    {m \in [start : BOOLEAN, end : BOOLEAN, revisit : BOOLEAN, choices : ChoiceLists(1)] :
        m.end => m.choices = <<>>}
GraphMetas ==
    {m \in [start : BOOLEAN, end : BOOLEAN, revisit : {TRUE},
            choices : ChoiceLists(MaxChoices)] : ~(m.start /\ m.end)}

\* ------------------------------------------------------------------------
\* StoryParts / StoryPart and the dict of groups
Keys(p) == {p[k].name : k \in DOMAIN p}
Part(p, name) == p[CHOOSE k \in DOMAIN p : p[k].name = name]
Pathnames(ns) == [k \in DOMAIN ns |-> ns[k].pathname]

\* StoryParts.revisit
Revisit(g) == \A k \in DOMAIN g.variants : g.variants[k].revisit

\* StoryPart(...) as find_parts builds it
StoryPart(f, meta) ==
    [filepath |-> f, pathname |-> Pathname(f),
     revisit |-> meta.revisit, choices |-> meta.choices]

\* a later document of a group overwrites the group's flags
AddPartLastWins(p, f, meta) ==
    LET pathname == Pathname(f)
        this_part == StoryPart(f, meta)
    IN IF pathname \notin Keys(p)
       THEN Append(p, [name |-> pathname, is_start |-> meta.start,
                       is_end |-> meta.end, variants |-> <<this_part>>])
       ELSE LET k == CHOOSE k \in DOMAIN p : p[k].name = pathname
            IN [p EXCEPT ![k] = [name |-> pathname, is_start |-> meta.start,
                                 is_end |-> meta.end,
                                 variants |-> Append(p[k].variants, this_part)]]

\* the body of find_parts' loop for one file
AddPart(p, f, meta) ==
    LET pathname == Pathname(f)
        this_part == StoryPart(f, meta)
    IN IF pathname \notin Keys(p)
       THEN Append(p, [name |-> pathname, is_start |-> meta.start,
                       is_end |-> meta.end, variants |-> <<this_part>>])
       ELSE LET k == CHOOSE k \in DOMAIN p : p[k].name = pathname
            IN [p EXCEPT ![k].variants = Append(@, this_part)]

all_nodes(p) == Flatten([k \in DOMAIN p |-> p[k].variants])
starting_nodes(p) ==
    Flatten([k \in DOMAIN p |-> IF p[k].is_start THEN p[k].variants ELSE <<>>])
ending_nodes(p) ==
    Flatten([k \in DOMAIN p |-> IF p[k].is_end THEN p[k].variants ELSE <<>>])

\* ------------------------------------------------------------------------
\* unreachable_nodes

\* the variants pushed for the choices of a visited node, in order
Pushed(p, n) ==
    Flatten([k \in DOMAIN n.choices |->
                IF n.choices[k] \in Keys(p) THEN Part(p, n.choices[k]).variants
                ELSE <<>>])

\* the while loop: the set of visited file names when the stack is empty
RECURSIVE Visit(_, _, _)
Visit(p, stack, visited) ==
    IF stack = <<>> THEN visited
    ELSE LET n == Last(stack)
             rest == Front(stack)
         IN IF FileName(n) \in visited THEN Visit(p, rest, visited)
            ELSE IF Part(p, n.pathname).is_end
                 THEN Visit(p, rest, visited \cup {FileName(n)})
                 ELSE Visit(p, rest \o Pushed(p, n), visited \cup {FileName(n)})

unreachable_nodes(p) ==
    LET stack == starting_nodes(p)
        every_node == all_nodes(p)
    IN IF stack = <<>> THEN every_node
       ELSE LET visited == Visit(p, stack, {})
            IN SelectSeq(every_node, LAMBDA n : FileName(n) \notin visited)

\* ------------------------------------------------------------------------
\* looping_nodes

\* depth_search: "skip if we're not revisitin" (ancestors do not hold the node)
DepthSearchSkips(p, ancestors, choice) ==
    ~Revisit(Part(p, choice)) /\ InSeq(choice, Pathnames(ancestors))

\* depth_search: the loops appended by the call depth_search(n, ancestors), in
\* order; SearchChoices and SearchVariants are its two nested for loops
RECURSIVE depth_search(_, _, _), SearchChoices(_, _, _, _), SearchVariants(_, _, _, _)
depth_search(p, n, ancestors) ==
    IF InSeq(n.pathname, Pathnames(ancestors)) THEN <<Append(ancestors, n)>>
    ELSE IF Part(p, n.pathname).is_end THEN <<>>
    ELSE IF Len(ancestors) > 2 * Len(p) THEN <<>>
    ELSE SearchChoices(p, n, ancestors, 1)

SearchChoices(p, n, ancestors, k) ==
    IF k > Len(n.choices) THEN <<>>
    ELSE LET choice == n.choices[k]
             found == IF choice \in Keys(p) /\ ~DepthSearchSkips(p, ancestors, choice)
                      THEN SearchVariants(p, Part(p, choice).variants,
                                          Append(ancestors, n), 1)
                      ELSE <<>>
         IN found \o SearchChoices(p, n, ancestors, k + 1)

SearchVariants(p, variants, ancestors, k) ==
    IF k > Len(variants) THEN <<>>
    ELSE depth_search(p, variants[k], ancestors)
            \o SearchVariants(p, variants, ancestors, k + 1)

\* the calls of depth_search that the call depth_search(n, ancestors) makes,
\* itself first, in order, each as [node, ancestors]; CallsOfChoices and
\* CallsOfVariants are the two nested for loops. DepthSearchCallsNoLoopTest is
\* the search without its first test (the node's group is among the ancestors).
RECURSIVE DepthSearchCallsNoLoopTest(_, _, _), DepthSearchCalls(_, _, _),
          CallsOfChoices(_, _, _, _), CallsOfVariants(_, _, _, _)
DepthSearchCallsNoLoopTest(p, n, ancestors) ==
    <<[node |-> n, ancestors |-> ancestors]>> \o
        (IF Part(p, n.pathname).is_end THEN <<>>
         ELSE IF Len(ancestors) > 2 * Len(p) THEN <<>>
         ELSE CallsOfChoices(p, n, ancestors, 1))

DepthSearchCalls(p, n, ancestors) ==
    <<[node |-> n, ancestors |-> ancestors]>> \o
        (IF InSeq(n.pathname, Pathnames(ancestors)) THEN <<>>
         ELSE IF Part(p, n.pathname).is_end THEN <<>>
         ELSE IF Len(ancestors) > 2 * Len(p) THEN <<>>
         ELSE CallsOfChoices(p, n, ancestors, 1))

CallsOfChoices(p, n, ancestors, k) ==
    IF k > Len(n.choices) THEN <<>>
    ELSE LET choice == n.choices[k]
             made == IF choice \in Keys(p) /\ ~DepthSearchSkips(p, ancestors, choice)
                     THEN CallsOfVariants(p, Part(p, choice).variants,
                                          Append(ancestors, n), 1)
                     ELSE <<>>
         IN made \o CallsOfChoices(p, n, ancestors, k + 1)

CallsOfVariants(p, variants, ancestors, k) ==
    IF k > Len(variants) THEN <<>>
    ELSE DepthSearchCalls(p, variants[k], ancestors)
            \o CallsOfVariants(p, variants, ancestors, k + 1)

\* every call of depth_search that looping_nodes(parts) makes
AllDepthSearchCalls(p) ==
    LET starts == starting_nodes(p)
    IN Flatten([k \in DOMAIN starts |-> DepthSearchCalls(p, starts[k], <<>>)])

\* the call gets as far as the cutoff test, and the test succeeds
CutoffTaken(p, call) ==
    /\ ~InSeq(call.node.pathname, Pathnames(call.ancestors))
    /\ ~Part(p, call.node.pathname).is_end
    /\ Len(call.ancestors) > 2 * Len(p)

\* the raw loops: depth_search from every starting node
RawLoops(p) ==
    LET starts == starting_nodes(p)
    IN Flatten([k \in DOMAIN starts |-> depth_search(p, starts[k], <<>>)])

\* Python's order of str on the group names, and of tuples of them
NameRank(name) == CHOOSE k \in DOMAIN GroupNames : GroupNames[k] = name
RECURSIVE TupleLess(_, _)
TupleLess(a, b) ==
    IF a = <<>> THEN b # <<>>
    ELSE IF b = <<>> THEN FALSE
    ELSE IF Head(a) = Head(b) THEN TupleLess(Tail(a), Tail(b))
    ELSE NameRank(Head(a)) < NameRank(Head(b))

\* s[k:] + s[:k] (k counted from 0)
Rotate(s, k) == SubSeq(s, k + 1, Len(s)) \o SubSeq(s, 1, k)

\* Python values: a tuple and a list never compare equal
PyTuple(s) == [type |-> "tuple", items |-> s]
PyList(s) == [type |-> "list", items |-> s]

\* names.index(names[-1]), counted from 1
IndexOfLast(names) == CHOOSE k \in DOMAIN names :
    names[k] = Last(names) /\ \A j \in 1..(k - 1) : names[j] # Last(names)

\* canonical_looping: [loop, names]
canonical_looping(loop0) ==
    LET names0 == Pathnames(loop0)
        start == IndexOfLast(names0)
        loop == SubSeq(loop0, start, Len(loop0))
        names == SubSeq(names0, start, Len(names0))
        rotations == [k \in DOMAIN names |-> PyTuple(Rotate(names, k - 1))]
        minimum == rotations[CHOOSE k \in DOMAIN rotations :
                        \A j \in DOMAIN rotations :
                            ~TupleLess(rotations[j].items, rotations[k].items)]
        hits == {k \in 0..(Len(loop) - 1) : minimum = PyList(Pathnames(loop))}
    IN IF hits # {}
       THEN LET k == CHOOSE k \in hits : \A j \in hits : k <= j
            IN [loop |-> Rotate(loop, k), names |-> Rotate(names, k)]
       ELSE [loop |-> loop, names |-> names]

\* the deduplication loop over the raw loops: [unique, unique_name]
RECURSIVE Unique(_, _, _)
Unique(raw, unique, unique_name) ==
    IF raw = <<>> THEN [unique |-> unique, unique_name |-> unique_name]
    ELSE LET c == canonical_looping(Head(raw))
         IN IF ~InSeq(c.names, unique_name)
            THEN Unique(Tail(raw), Append(unique, c.loop), Append(unique_name, c.names))
            ELSE Unique(Tail(raw), unique, unique_name)

looping_nodes(p) == Unique(RawLoops(p), <<>>, <<>>).unique

\* ------------------------------------------------------------------------
\* escapable_looping_nodes / innescapable_looping_nodes

\* a search that follows only the choices of the node itself
RECURSIVE EscapableSearchOwnChoices(_, _, _, _)
EscapableSearchOwnChoices(p, loop_names, n, visited) ==
    LET thispart == Part(p, n.pathname)
    IN IF thispart.is_end THEN TRUE
       ELSE IF n.pathname \in visited THEN FALSE
       ELSE \E c \in DOMAIN n.choices :
               /\ n.choices[c] \in Keys(p)
               /\ \E w \in DOMAIN Part(p, n.choices[c]).variants :
                    EscapableSearchOwnChoices(p, loop_names,
                        Part(p, n.choices[c]).variants[w], visited \cup {n.pathname})

\* search of escapable_looping_nodes.can_escape
RECURSIVE EscapableSearch(_, _, _, _)
EscapableSearch(p, loop_names, n, visited) ==
    LET thispart == Part(p, n.pathname)
    IN IF thispart.is_end THEN TRUE
       ELSE IF n.pathname \in visited THEN FALSE
       ELSE \E v \in DOMAIN thispart.variants :
            \E c \in DOMAIN thispart.variants[v].choices :
               LET choice == thispart.variants[v].choices[c]
               IN /\ choice \in Keys(p)
                  /\ IF choice \notin loop_names
                     THEN \E w \in DOMAIN Part(p, choice).variants :
                            EscapableSearch(p, loop_names, Part(p, choice).variants[w],
                                            visited \cup {n.pathname})
                     ELSE \E w \in DOMAIN Part(p, choice).variants :
                            EscapableSearch(p, loop_names, Part(p, choice).variants[w],
                                            visited \cup {n.pathname})

EscapableCanEscape(p, loop) ==
    \E k \in DOMAIN loop : EscapableSearch(p, Range(Pathnames(loop)), loop[k], {})

escapable_looping_nodes(p) ==
    SelectSeq(looping_nodes(p), LAMBDA loop : EscapableCanEscape(p, loop))

\* search of innescapable_looping_nodes.can_escape
RECURSIVE InnescapableSearch(_, _, _, _)
InnescapableSearch(p, loop_names, n, visited) ==
    LET thispart == Part(p, n.pathname)
    IN IF thispart.is_end THEN TRUE
       ELSE IF n.pathname \in visited THEN FALSE
       ELSE \E v \in DOMAIN thispart.variants :
            \E c \in DOMAIN thispart.variants[v].choices :
               LET choice == thispart.variants[v].choices[c]
               IN /\ choice \in Keys(p)
                  /\ IF choice \notin loop_names
                     THEN \E w \in DOMAIN Part(p, choice).variants :
                            InnescapableSearch(p, loop_names, Part(p, choice).variants[w],
                                               visited \cup {n.pathname})
                     ELSE \E w \in DOMAIN Part(p, choice).variants :
                            InnescapableSearch(p, loop_names, Part(p, choice).variants[w],
                                               visited \cup {n.pathname})

InnescapableCanEscape(p, loop) ==
    \E k \in DOMAIN loop : InnescapableSearch(p, Range(Pathnames(loop)), loop[k], {})

\* the copy of escapable_looping_nodes with its test left as it was
innescapable_without_not(p) ==
    SelectSeq(looping_nodes(p), LAMBDA loop : InnescapableCanEscape(p, loop))

innescapable_looping_nodes(p) ==
    SelectSeq(looping_nodes(p), LAMBDA loop : ~InnescapableCanEscape(p, loop))

\* ------------------------------------------------------------------------
\* abnormal_paths

\* traverse: "skip if we're not revisitin" (new_path holds the node)
TraverseSkips(p, new_path, choice) ==
    InSeq(choice, Pathnames(new_path)) /\ ~Revisit(Part(p, choice))

\* has_valid_choices: some variant of the group has a choice to an existing group
HasValidChoices(p, this_part) ==
    \E v \in DOMAIN this_part.variants :
        \E c \in DOMAIN this_part.variants[v].choices :
            this_part.variants[v].choices[c] \in Keys(p)

\* the calls traverse(next_variant, new_path) made by the three nested for
\* loops of a call of traverse, in the order the loops make them
TraverseCalls(p, new_path) ==
    LET this_part == Part(p, Last(new_path).pathname)
        OfChoice(choice) ==
            IF choice \notin Keys(p) THEN <<>>
            ELSE IF TraverseSkips(p, new_path, choice) THEN <<>>
            ELSE [w \in DOMAIN Part(p, choice).variants |->
                    [node |-> Part(p, choice).variants[w], path |-> new_path]]
        OfVariant(variant) ==
            Flatten([c \in DOMAIN variant.choices |-> OfChoice(variant.choices[c])])
    IN Flatten([v \in DOMAIN this_part.variants |-> OfVariant(this_part.variants[v])])

\* calls traverse(node) for every node, start group or not
InitialCallsAnyNode(p) ==
    [k \in DOMAIN all_nodes(p) |-> [node |-> all_nodes(p)[k], path |-> <<>>]]

\* the calls traverse(start) of the loop over starting_nodes(parts)
InitialCalls(p) ==
    [k \in DOMAIN starting_nodes(p) |-> [node |-> starting_nodes(p)[k], path |-> <<>>]]

\* sum(len(path) for path in all_paths)
RECURSIVE SumLen(_)
SumLen(ps) == IF ps = <<>> THEN 0 ELSE Len(Head(ps)) + SumLen(Tail(ps))

\* abs(len(path) - average_path) > 1, with average_path = total / count
FarFromAverage(path, total, count) ==
    LET d == Len(path) * count - total
    IN (IF d < 0 THEN -d ELSE d) > count

\* the paths abnormal_paths returns, given all_paths
abnormal_paths(ps) ==
    IF ps = <<>> THEN <<>>
    ELSE SelectSeq(ps, LAMBDA path : FarFromAverage(path, SumLen(ps), Len(ps)))

\* ------------------------------------------------------------------------
\* The graph pipeline: find_parts, then the graph checks in main's order

IdleGraph ==
    /\ stage = "idle" /\ last = 0 /\ metadata = "none" /\ parts = <<>>
    /\ unreachable = <<>> /\ loops = <<>> /\ escapable = <<>> /\ innescapable = <<>>
    /\ calls = <<>> /\ visited_paths = {} /\ all_paths = <<>> /\ abnormal = <<>>
IdleMain ==
    /\ pc = "idle" /\ corpus = 0 /\ values = {} /\ i = 0
    /\ failures = 0 /\ warnings = 0 /\ written = FALSE /\ code = "running"
IdleMarkers ==
    mstage = "idle" /\ node = "none" /\ flagged = FALSE

InitGraph ==
    /\ stage = "parsing" /\ last = 0 /\ metadata = "none" /\ parts = <<>>
    /\ unreachable = <<>> /\ loops = <<>> /\ escapable = <<>> /\ innescapable = <<>>
    /\ calls = <<>> /\ visited_paths = {} /\ all_paths = <<>> /\ abnormal = <<>>
    /\ IdleMain /\ IdleMarkers

\* one iteration of find_parts' loop: glob yields the next file, with metadata of M
FindPartsStep(M) ==
    /\ stage = "parsing"
    /\ Len(all_nodes(parts)) < MaxDocs
    /\ \E k \in (last + 1)..Len(Files), meta \in M :
        /\ last' = k
        /\ metadata' = meta
        /\ parts' = AddPart(parts, Files[k], meta)
    /\ UNCHANGED <<stage, unreachable, loops, escapable, innescapable, calls, visited_paths,
                 all_paths, abnormal>>
    /\ UNCHANGED <<mainVars, markerVars>>

\* glob is exhausted: find_parts returns parts
FindPartsReturn ==
    /\ stage = "parsing"
    /\ stage' = "parsed"
    /\ metadata' = "none"
    /\ UNCHANGED <<last, parts, unreachable, loops, escapable, innescapable, calls, visited_paths,
                 all_paths, abnormal>>
    /\ UNCHANGED <<mainVars, markerVars>>

RunUnreachable ==
    /\ stage = "parsed"
    /\ stage' = "unreachable"
    /\ unreachable' = unreachable_nodes(parts)
    /\ UNCHANGED <<last, metadata, parts, loops, escapable, innescapable, calls, visited_paths,
                 all_paths, abnormal>>
    /\ UNCHANGED <<mainVars, markerVars>>

RunLooping ==
    /\ stage = "unreachable"
    /\ stage' = "looping"
    /\ loops' = looping_nodes(parts)
    /\ UNCHANGED <<last, metadata, parts, unreachable, escapable, innescapable, calls, visited_paths,
                 all_paths, abnormal>>
    /\ UNCHANGED <<mainVars, markerVars>>

RunEscapable ==
    /\ stage = "looping"
    /\ stage' = "escapable"
    /\ escapable' = escapable_looping_nodes(parts)
    /\ UNCHANGED <<last, metadata, parts, unreachable, loops, innescapable, calls, visited_paths,
                 all_paths, abnormal>>
    /\ UNCHANGED <<mainVars, markerVars>>

RunInnescapable ==
    /\ stage = "escapable"
    /\ stage' = "innescapable"
    /\ innescapable' = innescapable_looping_nodes(parts)
    /\ UNCHANGED <<last, metadata, parts, unreachable, loops, escapable, calls, visited_paths,
                 all_paths, abnormal>>
    /\ UNCHANGED <<mainVars, markerVars>>

RunChecks ==
    \/ RunUnreachable
    \/ RunLooping
    \/ RunEscapable
    \/ RunInnescapable

ParseGraph == FindPartsStep(GraphMetas)
NextGraph == ParseGraph \/ FindPartsReturn \/ RunChecks
SpecGraph == InitGraph /\ [][NextGraph]_vars

ParseParts == FindPartsStep(Metas)
NextParts == ParseParts \/ FindPartsReturn \/ RunChecks
SpecParts == InitGraph /\ [][NextParts]_vars

\* abnormal_paths(parts) is called on the graph find_parts returned
StartAbnormalPaths ==
    /\ stage = "parsed"
    /\ stage' = "traverse"
    /\ calls' = InitialCalls(parts)
    /\ visited_paths' = {}
    /\ all_paths' = <<>>
    /\ UNCHANGED <<last, metadata, parts, unreachable, loops, escapable, innescapable,
                   abnormal>>
    /\ UNCHANGED <<mainVars, markerVars>>

\* one call traverse(node, path), up to the calls it makes in turn: these run
\* next, in the order of the loops, before the calls that were already waiting
traverse ==
    /\ stage = "traverse"
    /\ calls # <<>>
    /\ LET n == Head(calls).node
           path == Head(calls).path
           new_path == Append(path, n)
           pathnames == Pathnames(new_path)
           this_part == Part(parts, n.pathname)
       IN IF Len(path) > 5 * Len(parts)
          THEN /\ calls' = Tail(calls)
               /\ UNCHANGED <<visited_paths, all_paths>>
          ELSE IF pathnames \in visited_paths
          THEN /\ calls' = Tail(calls)
               /\ UNCHANGED <<visited_paths, all_paths>>
          ELSE /\ visited_paths' = visited_paths \cup {pathnames}
               /\ IF this_part.is_end \/ ~HasValidChoices(parts, this_part)
                  THEN /\ all_paths' = Append(all_paths, new_path)
                       /\ calls' = Tail(calls)
                  ELSE /\ calls' = TraverseCalls(parts, new_path) \o Tail(calls)
                       /\ UNCHANGED all_paths
    /\ UNCHANGED <<stage, last, metadata, parts, unreachable, loops, escapable,
                   innescapable, abnormal>>
    /\ UNCHANGED <<mainVars, markerVars>>

\* every call has returned: abnormal_paths returns the paths far from the average
ReturnAbnormalPaths ==
    /\ stage = "traverse"
    /\ calls = <<>>
    /\ stage' = "abnormal"
    /\ abnormal' = abnormal_paths(all_paths)
    /\ UNCHANGED <<last, metadata, parts, unreachable, loops, escapable, innescapable,
                   calls, visited_paths, all_paths>>
    /\ UNCHANGED <<mainVars, markerVars>>

\* the corpora abnormal_paths is run on: at most one group allows revisiting, so
\* a playthrough repeats a group only along a self-loop of that group
PathCorpus(p) == Cardinality({k \in DOMAIN p : Revisit(p[k])}) <= 1

ParsePaths == FindPartsStep(Metas) /\ PathCorpus(parts')
NextPaths ==
    ParsePaths \/ FindPartsReturn \/ StartAbnormalPaths \/ traverse \/ ReturnAbnormalPaths
SpecPaths == InitGraph /\ [][NextPaths]_vars

\* ------------------------------------------------------------------------
\* Reachability in the graph of groups, for the statements below

\* the existing groups some variant of group g has a choice to
Successors(p, g) ==
    {c \in Keys(p) : \E v \in DOMAIN Part(p, g).variants :
                        InSeq(c, Part(p, g).variants[v].choices)}

\* the groups reachable from the groups of S along choices to existing groups
RECURSIVE Reachable(_, _)
Reachable(p, S) ==
    LET T == S \cup UNION {Successors(p, g) : g \in S}
    IN IF T = S THEN S ELSE Reachable(p, T)

StartGroups(p) == {p[k].name : k \in {j \in DOMAIN p : p[j].is_start}}
EndGroups(p) == {p[k].name : k \in {j \in DOMAIN p : p[j].is_end}}

\* some end group is reachable from the group of some node of the loop
LoopReachesEnd(p, loop) ==
    Reachable(p, Range(Pathnames(loop))) \cap EndGroups(p) # {}

\* the cycle of group names of a returned loop (without the closing repeat)
Cycle(loop) == Front(Pathnames(loop))
IsRotation(a, b) == Len(a) = Len(b) /\ \E k \in 0..Len(a) : Rotate(a, k) = b

\* ------------------------------------------------------------------------
\* Statements about the graph checks

\* C1: escapable_looping_nodes and innescapable_looping_nodes partition
\* looping_nodes: every loop of looping_nodes is in exactly one of the two
\* results, and the two results hold nothing else.
C1_Partition ==
    stage = "innescapable" =>
        /\ \A k \in DOMAIN loops :
              InSeq(loops[k], escapable) # InSeq(loops[k], innescapable)
        /\ Range(escapable) \cup Range(innescapable) \subseteq Range(loops)
        /\ Len(escapable) + Len(innescapable) = Len(loops)

\* both classes are inhabited
C1_Witness ==
    stage = "innescapable" /\ escapable # <<>> /\ innescapable # <<>>

\* C2: looping_nodes never returns two loops whose cycles of group names are
\* rotations of one another.
C2_RotationInvariant ==
    stage = "looping" =>
        \A j, k \in DOMAIN loops :
            j # k => ~IsRotation(Cycle(loops[j]), Cycle(loops[k]))

\* C3: unreachable_nodes returns an empty list whenever every group is
\* reachable from some start group along choices to existing groups.
C3_ReachableMeansEmpty ==
    stage = "unreachable" =>
        (Keys(parts) \subseteq Reachable(parts, StartGroups(parts))
            => unreachable = <<>>)

\* C6 as claimed: the group of the document parsed last carries that
\* document's start and end flags.
C6_LastParsedWins ==
    (stage = "parsing" /\ last > 0) =>
        /\ Part(parts, Pathname(Files[last])).is_start = metadata.start
        /\ Part(parts, Pathname(Files[last])).is_end = metadata.end

\* C6 as amended: a group's is_start and is_end are those of the first document
\* parsed for the group: the document that creates the group sets them, and no
\* later document of the group changes them.
C6_FirstParsedWins ==
    [][(stage = "parsing" /\ stage' = "parsing") =>
        LET g == Pathname(Files[last'])
        IN IF g \in Keys(parts)
           THEN /\ Part(parts', g).is_start = Part(parts, g).is_start
                /\ Part(parts', g).is_end = Part(parts, g).is_end
                /\ Len(Part(parts', g).variants) = Len(Part(parts, g).variants) + 1
           ELSE /\ Part(parts', g).is_start = metadata'.start
                /\ Part(parts', g).is_end = metadata'.end]_vars

\* a second document of a group declares flags that differ from the group's
C6_Witness ==
    /\ stage = "parsing" /\ last > 0
    /\ Len(Part(parts, Pathname(Files[last])).variants) = 2
    /\ Part(parts, Pathname(Files[last])).is_start # metadata.start
    /\ Part(parts, Pathname(Files[last])).is_end # metadata.end

\* C9: on every call depth_search makes on the way to a loop, and for every
\* choice of the node to an existing group, depth_search skips the choice
\* exactly when traverse skips it for the same node and the same path.
C9_SamePruning ==
    stage = "looping" =>
        \A raw \in Range(RawLoops(parts)) :
            \A j \in 1..(Len(raw) - 1) :
                \A c \in DOMAIN raw[j].choices :
                    raw[j].choices[c] \in Keys(parts) =>
                        (DepthSearchSkips(parts, SubSeq(raw, 1, j - 1), raw[j].choices[c])
                            <=> TraverseSkips(parts, SubSeq(raw, 1, j), raw[j].choices[c]))

\* C10: a loop of looping_nodes is returned by escapable_looping_nodes iff some
\* end group is reachable from the group of some node of the loop along choices
\* (of any variant) to existing groups; otherwise innescapable_looping_nodes
\* returns it.
C10_EscapableIffEndReachable ==
    /\ stage \in {"escapable", "innescapable"} =>
          \A k \in DOMAIN loops :
              InSeq(loops[k], escapable) <=> LoopReachesEnd(parts, loops[k])
    /\ stage = "innescapable" =>
          \A k \in DOMAIN loops :
              InSeq(loops[k], innescapable) <=> ~LoopReachesEnd(parts, loops[k])

\* an escapable loop whose groups have no choice to an end group themselves: the
\* way out passes through a group outside the loop
C10_Witness ==
    /\ stage = "innescapable"
    /\ \E k \in DOMAIN escapable :
          \A g \in Range(Pathnames(escapable[k])) :
              Successors(parts, g) \cap EndGroups(parts) = {}

\* C11: no playthrough that abnormal_paths' enumeration records has more than
\* 5 x (number of groups) nodes.
C11_RecordedWithinBound ==
    stage \in {"traverse", "abnormal"} =>
        \A k \in DOMAIN all_paths : Len(all_paths[k]) <= 5 * Len(parts)

\* C12: in every call of depth_search that looping_nodes makes, the ancestors
\* carry pairwise distinct group names, so their number never exceeds the
\* number of groups and the cutoff len(ancestors) > 2 * len(parts) is never
\* taken.
C12_AncestorsDistinct ==
    stage = "looping" =>
        \A call \in Range(AllDepthSearchCalls(parts)) :
            LET names == Pathnames(call.ancestors)
            IN /\ \A j, k \in DOMAIN names : j # k => names[j] # names[k]
               /\ Len(call.ancestors) <= Len(parts)
               /\ ~CutoffTaken(parts, call)

\* a call whose ancestors hold every group of a corpus of several groups: the
\* search has gone round a cycle through all of them
C12_Witness ==
    /\ stage = "looping"
    /\ Len(parts) >= 2
    /\ \E call \in Range(AllDepthSearchCalls(parts)) :
          /\ Len(call.ancestors) = Len(parts)
          /\ InSeq(call.node.pathname, Pathnames(call.ancestors))

\* C13 as claimed: every recorded playthrough starts at a variant of a start
\* group, and of every two consecutive nodes the earlier node itself has a
\* choice whose target is the later node's group.
C13_NodePath ==
    stage \in {"traverse", "abnormal"} =>
        \A k \in DOMAIN all_paths :
            LET path == all_paths[k]
            IN /\ InSeq(path[1], starting_nodes(parts))
               /\ \A j \in 1..(Len(path) - 1) :
                     InSeq(path[j + 1].pathname, path[j].choices)

\* C13 as amended: every recorded playthrough starts at a variant of a start
\* group, every node of it is a variant of its group, and of every two
\* consecutive nodes some variant of the earlier node's group (not necessarily
\* the node itself) has a choice whose target is the later node's group.
C13_GroupPath ==
    stage \in {"traverse", "abnormal"} =>
        \A k \in DOMAIN all_paths :
            LET path == all_paths[k]
            IN /\ Part(parts, path[1].pathname).is_start
               /\ \A j \in DOMAIN path :
                     /\ path[j].pathname \in Keys(parts)
                     /\ InSeq(path[j], Part(parts, path[j].pathname).variants)
               /\ \A j \in 1..(Len(path) - 1) :
                     path[j + 1].pathname \in Successors(parts, path[j].pathname)

\* a recorded playthrough steps from a node along a choice that only a sibling
\* variant of the node declares
C13_Witness ==
    /\ stage = "abnormal"
    /\ \E k \in DOMAIN all_paths :
          \E j \in 1..(Len(all_paths[k]) - 1) :
              /\ ~InSeq(all_paths[k][j + 1].pathname, all_paths[k][j].choices)
              /\ all_paths[k][j + 1].pathname
                    \in Successors(parts, all_paths[k][j].pathname)

\* ------------------------------------------------------------------------
\* main

\* StoryCheck(function, check_type, required = True, raise_on_empty = False)
StoryCheck(function, required, raise_on_empty) ==
    [function |-> function, required |-> required, raise_on_empty |-> raise_on_empty]

\* main's list of checks
Checks == <<
    StoryCheck("starting_nodes", TRUE, TRUE),
    StoryCheck("ending_nodes", TRUE, TRUE),
    StoryCheck("start_end_nodes", TRUE, FALSE),
    StoryCheck("empty_nodes", TRUE, FALSE),
    StoryCheck("duplicate_nodes", TRUE, FALSE),
    StoryCheck("invalid_links", FALSE, FALSE),
    StoryCheck("dead_ends", TRUE, FALSE),
    StoryCheck("continuing_ends", TRUE, FALSE),
    StoryCheck("noncontinuing_variants", TRUE, FALSE),
    StoryCheck("revist_variants", TRUE, FALSE),
    StoryCheck("single_choice", FALSE, FALSE),
    StoryCheck("duplicate_choices", FALSE, FALSE),
    StoryCheck("unreachable_nodes", TRUE, FALSE),
    StoryCheck("escapable_looping_nodes", FALSE, FALSE),
    StoryCheck("innescapable_looping_nodes", TRUE, FALSE),
    StoryCheck("abnormal_paths", FALSE, FALSE),
    StoryCheck("colour_metadata", TRUE, FALSE),
    StoryCheck("colour_markers", TRUE, FALSE),
    StoryCheck("excessive_colours", TRUE, FALSE),
    StoryCheck("pace_metadata", TRUE, FALSE),
    StoryCheck("pace_markers", TRUE, FALSE),
    StoryCheck("excessive_pacing", TRUE, FALSE),
    StoryCheck("effect_metadata", TRUE, FALSE),
    StoryCheck("effect_markers", TRUE, FALSE),
    StoryCheck("excessive_effects", TRUE, FALSE),
    StoryCheck("pov_metadata", TRUE, FALSE),
    StoryCheck("pov_markers", TRUE, FALSE),
    StoryCheck("excessive_povs", TRUE, FALSE),
    StoryCheck("message_metadata", TRUE, FALSE),
    StoryCheck("message_markers", TRUE, FALSE),
    StoryCheck("message_title_metadata", TRUE, FALSE),
    StoryCheck("message_title_markers", TRUE, FALSE) >>

\* a check that reports whenever its function returns something
FindingIgnoresRaiseOnEmpty(value, raise_on_empty) == value

\* (not value and check.raise_on_empty) or (value and not check.raise_on_empty),
\* value standing for "the function's result is non-empty"
Finding(value, raise_on_empty) ==
    (~value /\ raise_on_empty) \/ (value /\ ~raise_on_empty)

\* every finding counted as a failure
TallyAllFailures(check, f, w) == [failures |-> f + 1, warnings |-> w]

\* if check.required: failures += 1, else: warnings += 1
Tally(check, f, w) ==
    IF check.required THEN [failures |-> f + 1, warnings |-> w]
    ELSE [failures |-> f, warnings |-> w + 1]

\* the sets of at most n checks (by position in Checks)
RECURSIVE FindingSets(_)
FindingSets(n) ==
    IF n = 0 THEN {{}}
    ELSE LET smaller == FindingSets(n - 1)
         IN smaller \cup {T \cup {k} : T \in smaller, k \in DOMAIN Checks}

\* the results (non-empty or not) with which exactly the checks of T find something
ValuesFor(T) == {k \in DOMAIN Checks : (k \in T) # Checks[k].raise_on_empty}

InitMain ==
    /\ pc = "start"
    /\ corpus \in 0..1
    /\ values \in {ValuesFor(T) : T \in FindingSets(MaxFindings)}
    /\ i = 0 /\ failures = 0 /\ warnings = 0 /\ written = FALSE /\ code = "running"
    /\ IdleGraph /\ IdleMarkers

\* parts = find_parts(); if not parts: failure(...); return 1
MainFindParts ==
    /\ pc = "start"
    /\ IF corpus = 0
       THEN pc' = "done" /\ code' = "1"
       ELSE pc' = "checks" /\ code' = code
    /\ UNCHANGED <<corpus, values, i, failures, warnings, written>>
    /\ UNCHANGED <<graphVars, markerVars>>

\* one iteration of "for i, check in enumerate(checks)"
MainCheck ==
    /\ pc = "checks"
    /\ i < Len(Checks)
    /\ LET check == Checks[i + 1]
           value == (i + 1) \in values
           tally == Tally(check, failures, warnings)
       IN IF Finding(value, check.raise_on_empty)
          THEN failures' = tally.failures /\ warnings' = tally.warnings
          ELSE failures' = failures /\ warnings' = warnings
    /\ i' = i + 1
    /\ UNCHANGED <<pc, corpus, values, written, code>>
    /\ UNCHANGED <<graphVars, markerVars>>

\* after the loop: "if failures: return 1", else story.json is written
MainFinish ==
    /\ pc = "checks"
    /\ i = Len(Checks)
    /\ pc' = "done"
    /\ IF failures # 0
       THEN code' = "1" /\ written' = written
       ELSE code' = "None" /\ written' = TRUE
    /\ UNCHANGED <<corpus, values, i, failures, warnings>>
    /\ UNCHANGED <<graphVars, markerVars>>

NextMain == MainFindParts \/ MainCheck \/ MainFinish
SpecMain == InitMain /\ [][NextMain]_vars

\* ------------------------------------------------------------------------
\* Statements about main

\* check k finds something: a raise_on_empty check with an empty result, any
\* other check with a non-empty one
CheckFails(k) == IF Checks[k].raise_on_empty THEN k \notin values ELSE k \in values
Findings == {k \in DOMAIN Checks : CheckFails(k)}
FunctionsOf(S) == {Checks[k].function : k \in S}

\* C4: the story document is written iff the corpus is non-empty and no
\* required check failed; it is written only after every check has run; with
\* an empty corpus no check runs and nothing is written.
C4_ExportIffNoRequiredFailure ==
    /\ pc = "done" =>
          (written <=> (corpus > 0 /\ \A k \in Findings : ~Checks[k].required))
    /\ written => (pc = "done" /\ i = Len(Checks))
    /\ corpus = 0 => (i = 0 /\ ~written)

\* a run that exports although a check found something
C4_Witness ==
    pc = "done" /\ written /\ Findings # {} /\ i = Len(Checks)

\* the checks the claim calls stylistic
StylisticChecks ==
    {"duplicate_nodes", "single_choice", "duplicate_choices",
     "escapable_looping_nodes", "abnormal_paths",
     "colour_metadata", "colour_markers", "excessive_colours",
     "pace_metadata", "pace_markers", "excessive_pacing",
     "effect_metadata", "effect_markers", "excessive_effects",
     "pov_metadata", "pov_markers", "excessive_povs",
     "message_metadata", "message_markers",
     "message_title_metadata", "message_title_markers"}

\* those of them main lists with required = False
AdvisoryChecks ==
    {"single_choice", "duplicate_choices", "escapable_looping_nodes", "abnormal_paths"}

\* C5 as claimed: when only stylistic checks find something, main counts
\* warnings, no failure, and exports.
C5_StylisticIsAdvisory ==
    (pc = "done" /\ corpus > 0 /\ FunctionsOf(Findings) \subseteq StylisticChecks) =>
        (failures = 0 /\ warnings = Cardinality(Findings) /\ written)

\* C5 as amended: when only single_choice, duplicate_choices,
\* escapable_looping_nodes or abnormal_paths find something, main counts each
\* as a warning, no failure, and exports; a finding of duplicate_nodes or of a
\* marker check (*_metadata, *_markers, excessive_*) is a failure and nothing
\* is exported.
C5_OnlyUnrequiredIsAdvisory ==
    /\ (pc = "done" /\ corpus > 0 /\ FunctionsOf(Findings) \subseteq AdvisoryChecks) =>
          (failures = 0 /\ warnings = Cardinality(Findings) /\ written)
    /\ (pc = "done" /\ corpus > 0
            /\ FunctionsOf(Findings) \cap (StylisticChecks \ AdvisoryChecks) # {}) =>
          (failures > 0 /\ ~written /\ code = "1")

\* a run exported with two advisory findings
C5_Witness ==
    /\ pc = "done" /\ written /\ warnings = 2
    /\ FunctionsOf(Findings) \subseteq AdvisoryChecks

\* ------------------------------------------------------------------------
\* The marker checks

None == "None"
Truthy(v) == v # None /\ v # ""

\* the lines a node's text is made of, and the values its metadata may declare
TextLines == {"", "hello", "/colour #fff", "/colour #000", "/fast"}
PaceValues == {None, "fast", "quick"}
ColourValues == {None, "#fff", "#12"}
EffectValues == {None, "shake", "zoom"}
PovValues == {None, "alice", "a b"}
MessagePovValues == {None, "message-pov bob", "bob"}
MessageTitleValues == {None, "", "Hi"}

\* regex.match(value) for the META_..._PATTERNs, on the values above
Matches(regex, v) ==
    CASE regex = "META_PACE_PATTERN" -> v \in {"fast"}
      [] regex = "META_COLOUR_PATTERN" -> v \in {"#fff"}
      [] regex = "META_EFFECT_PATTERN" -> v \in {"shake"}
      [] regex = "META_POV_PATTERN" -> v \in {"alice"}
      [] regex = "META_MESSAGE_PATTERN" -> v \in {"message-pov bob"}
      [] regex = "META_MESSAGE_TITLE_PATTERN" -> FALSE
      [] OTHER -> FALSE

\* regex.findall(line) for the marker patterns, on the lines above
FindAll(regex, line) ==
    CASE regex = "COLOUR_PATTERN" /\ line = "/colour #fff" -> <<"colour #fff">>
      [] regex = "COLOUR_PATTERN" /\ line = "/colour #000" -> <<"colour #000">>
      [] regex = "PACE_PATTERN" /\ line = "/fast" -> <<"fast">>
      [] OTHER -> <<>>

\* getattr(part, property, None): the dataclass fields of StoryPart
GetAttr(part, property) ==
    IF property \in DOMAIN part THEN part[property] ELSE None

\* command_metadata(parts, regex, property) over the nodes of parts
command_metadata(nodes, regex, property) ==
    SelectSeq(nodes, LAMBDA part :
        /\ Truthy(GetAttr(part, property))
        /\ ~Matches(regex, GetAttr(part, property)))

\* thresholds as fractions
EXCESSIVE_THRESHOLD == [num |-> 1, den |-> 4]
DefaultThreshold == [num |-> 1, den |-> 2]

Count(x, s) == Cardinality({k \in DOMAIN s : s[k] = x})
\* frequency.most_common(1)[0][1]
MostUsed(match) ==
    CHOOSE c \in {Count(x, match) : x \in Range(match)} :
        \A x \in Range(match) : Count(x, match) <= c

NonBlank(text) == SelectSeq(text, LAMBDA line : line # "")
FindAllText(regex, text) == Flatten([k \in DOMAIN text |-> FindAll(regex, text[k])])

\* excessive_commands(parts, regex, threshold) over the nodes of parts
excessive_commands(nodes, regex, threshold) ==
    SelectSeq(nodes, LAMBDA part :
        LET lines == NonBlank(part.text)
            match == FindAllText(regex, part.text)
        IN /\ lines # <<>>
           /\ match # <<>>
           /\ MostUsed(match) * threshold.den > threshold.num * Len(lines)
           /\ Len(lines) > 4)

colour_metadata(nodes) == command_metadata(nodes, "META_COLOUR_PATTERN", "colour")
excessive_colours(nodes) == excessive_commands(nodes, "COLOUR_PATTERN", DefaultThreshold)
pace_metadata(nodes) == command_metadata(nodes, "META_PACE_PATTERN", "pace")
excessive_pacing(nodes) == excessive_commands(nodes, "PACE_PATTERN", DefaultThreshold)
effect_metadata(nodes) == command_metadata(nodes, "META_EFFECT_PATTERN", "effect")
excessive_effects(nodes) == excessive_commands(nodes, "EFFECT_PATTERN", DefaultThreshold)
pov_metadata(nodes) == command_metadata(nodes, "META_POV_PATTERN", "pov")
excessive_povs(nodes) == excessive_commands(nodes, "POV_PATTERN", DefaultThreshold)
message_metadata(nodes) == command_metadata(nodes, "META_MESSAGE_PATTERN", "message-pov")
message_title_metadata(nodes) ==
    command_metadata(nodes, "META_MESSAGE_TITLE_PATTERN", "message-title")

\* the texts of up to n lines
RECURSIVE Texts(_)
Texts(n) ==
    IF n = 0 THEN {<<>>}
    ELSE LET shorter == Texts(n - 1)
         IN shorter \cup {Append(t, line) : t \in {u \in shorter : Len(u) = n - 1},
                                             line \in TextLines}

\* StoryPart as the marker checks read it
MarkerPart(text, pace, colour, effect, pov, messagepov, messagetitle) ==
    [text |-> text, pace |-> pace, colour |-> colour, effect |-> effect, pov |-> pov,
     messagepov |-> messagepov, messagetitle |-> messagetitle]

\* the nodes checked: any text without metadata, or any metadata over one line
InitMarkers ==
    /\ mstage = "ready"
    /\ flagged = <<>>
    /\ \/ \E text \in Texts(MaxLines) :
             node = MarkerPart(text, None, None, None, None, None, None)
       \/ \E pace \in PaceValues, colour \in ColourValues, effect \in EffectValues,
             pov \in PovValues, messagepov \in MessagePovValues,
             messagetitle \in MessageTitleValues :
             node = MarkerPart(<<"hello">>, pace, colour, effect, pov,
                               messagepov, messagetitle)
    /\ IdleGraph /\ IdleMain

\* main calls one of the six metadata checks
RunCommandMetadata ==
    /\ mstage = "ready"
    /\ \E check \in {"pace_metadata", "colour_metadata", "effect_metadata",
                     "pov_metadata", "message_metadata", "message_title_metadata"} :
        /\ mstage' = check
        /\ flagged' = CASE check = "pace_metadata" -> pace_metadata(<<node>>)
                        [] check = "colour_metadata" -> colour_metadata(<<node>>)
                        [] check = "effect_metadata" -> effect_metadata(<<node>>)
                        [] check = "pov_metadata" -> pov_metadata(<<node>>)
                        [] check = "message_metadata" -> message_metadata(<<node>>)
                        [] OTHER -> message_title_metadata(<<node>>)
    /\ UNCHANGED node
    /\ UNCHANGED <<graphVars, mainVars>>

\* main calls one of the four excessive-usage checks
RunExcessiveCommands ==
    /\ mstage = "ready"
    /\ \E check \in {"excessive_colours", "excessive_pacing",
                     "excessive_effects", "excessive_povs"} :
        /\ mstage' = check
        /\ flagged' = CASE check = "excessive_colours" -> excessive_colours(<<node>>)
                        [] check = "excessive_pacing" -> excessive_pacing(<<node>>)
                        [] check = "excessive_effects" -> excessive_effects(<<node>>)
                        [] OTHER -> excessive_povs(<<node>>)
    /\ UNCHANGED node
    /\ UNCHANGED <<graphVars, mainVars>>

NextMarkers == RunCommandMetadata \/ RunExcessiveCommands
SpecMarkers == InitMarkers /\ [][NextMarkers]_vars

\* ------------------------------------------------------------------------
\* Statements about the marker checks

\* whether the most frequent marker of the regex is on more than num/den of the
\* non-blank lines of a text of more than four non-blank lines
Overused(regex, text, num, den) ==
    /\ Len(NonBlank(text)) > 4
    /\ FindAllText(regex, text) # <<>>
    /\ MostUsed(FindAllText(regex, text)) * den > num * Len(NonBlank(text))

\* C7: excessive_colours flags a node of more than four non-blank lines whose
\* most frequent colour marker is on more than a quarter of them; the pace,
\* effect and pov checks flag at more than one half.
C7_ColourUsesQuarter ==
    /\ mstage = "excessive_colours" =>
          (flagged # <<>> <=> Overused("COLOUR_PATTERN", node.text, 1, 4))
    /\ mstage = "excessive_pacing" =>
          (flagged # <<>> <=> Overused("PACE_PATTERN", node.text, 1, 2))
    /\ mstage = "excessive_effects" =>
          (flagged # <<>> <=> Overused("EFFECT_PATTERN", node.text, 1, 2))
    /\ mstage = "excessive_povs" =>
          (flagged # <<>> <=> Overused("POV_PATTERN", node.text, 1, 2))

\* the field of StoryPart that holds each metadata check's value, and the
\* pattern the check is given
ConcernOf(check) ==
    CASE check = "pace_metadata" -> [field |-> "pace", regex |-> "META_PACE_PATTERN"]
      [] check = "colour_metadata" -> [field |-> "colour", regex |-> "META_COLOUR_PATTERN"]
      [] check = "effect_metadata" -> [field |-> "effect", regex |-> "META_EFFECT_PATTERN"]
      [] check = "pov_metadata" -> [field |-> "pov", regex |-> "META_POV_PATTERN"]
      [] check = "message_metadata" ->
            [field |-> "messagepov", regex |-> "META_MESSAGE_PATTERN"]
      [] OTHER -> [field |-> "messagetitle", regex |-> "META_MESSAGE_TITLE_PATTERN"]

\* C8: each metadata check returns every node that declares a non-empty value
\* for its concern which does not match the concern's pattern.
C8_InvalidMetadataReported ==
    mstage \in {"pace_metadata", "colour_metadata", "effect_metadata",
                "pov_metadata", "message_metadata", "message_title_metadata"} =>
        LET concern == ConcernOf(mstage)
        IN (Truthy(node[concern.field]) /\ ~Matches(concern.regex, node[concern.field]))
              => flagged = <<node>>

====
